---- MODULE Spec2Model ----
(***************************************************************************)
(* Layer walker of fanal (walker/tar.go): LayerTar.Walk, underSkippedDir   *)
(* and walker.fileWithTarOpener.                                           *)
(*                                                                         *)
(* Strings are sequences of one-character strings, so that the path        *)
(* functions of the Go library the walker calls (filepath.Clean, Split,    *)
(* Join, Rel; strings.TrimLeft, HasPrefix, TrimPrefix) are computed        *)
(* character by character, as the library computes them (unix build:       *)
(* the separator is "/" and there is no volume name).                      *)
(***************************************************************************)
EXTENDS Integers, Sequences, FiniteSets, TLC

\* ------------------------------------------------------------ strings

\* const opq, wh (tar.go:16-19)
opq == <<".", "w", "h", ".", ".", "w", "h", ".", ".", "o", "p", "q">>
wh == <<".", "w", "h", ".">>

\* s[i:j] of Go, 0-based and half-open
Slice(s, i, j) == SubSeq(s, i + 1, j)

\* strings.HasPrefix
HasPrefix(s, prefix) ==
    Len(s) >= Len(prefix) /\ Slice(s, 0, Len(prefix)) = prefix

\* strings.TrimPrefix
TrimPrefix(s, prefix) ==
    IF HasPrefix(s, prefix) THEN Slice(s, Len(prefix), Len(s)) ELSE s

\* strings.TrimLeft(s, "/")
RECURSIVE TrimLeftSlash(_)
TrimLeftSlash(s) ==
    IF Len(s) > 0 /\ s[1] = "/" THEN TrimLeftSlash(Tail(s)) ELSE s

\* strings.Count(s, "/")
RECURSIVE CountSlash(_)
CountSlash(s) ==
    IF Len(s) = 0 THEN 0
    ELSE (IF s[1] = "/" THEN 1 ELSE 0) + CountSlash(Tail(s))

\* index (0-based) of the first "/" of s at or after r, or Len(s)
RECURSIVE NextSlash(_, _)
NextSlash(s, r) ==
    IF r < Len(s) /\ s[r + 1] # "/" THEN NextSlash(s, r + 1) ELSE r

\* the lazybuf backtrack of filepath.Clean on a ".." element:
\* out.w--; for out.w > dotdot && out.index(out.w) != '/' { out.w-- }
RECURSIVE CleanBack(_, _, _)
CleanBack(out, w, dotdot) ==
    IF w > dotdot /\ out[w + 1] # "/" THEN CleanBack(out, w - 1, dotdot)
    ELSE Slice(out, 0, w)

\* the scanning loop of filepath.Clean: r is the read index, out the output
\* buffer, dotdot the index where ".." must stop
RECURSIVE CleanLoop(_, _, _, _, _)
CleanLoop(path, r, out, dotdot, rooted) ==
    LET n == Len(path)
        ch(i) == path[i + 1]
    IN  IF r >= n THEN out
        ELSE IF ch(r) = "/" THEN CleanLoop(path, r + 1, out, dotdot, rooted)
        ELSE IF ch(r) = "." /\ (r + 1 = n \/ ch(r + 1) = "/")
             THEN CleanLoop(path, r + 1, out, dotdot, rooted)
        ELSE IF ch(r) = "." /\ ch(r + 1) = "." /\ (r + 2 = n \/ ch(r + 2) = "/")
             THEN IF Len(out) > dotdot
                  THEN CleanLoop(path, r + 2,
                                 CleanBack(out, Len(out) - 1, dotdot),
                                 dotdot, rooted)
                  ELSE IF ~rooted
                  THEN LET o2 == (IF Len(out) > 0 THEN out \o <<"/">> ELSE out)
                                 \o <<".", ".">>
                       IN  CleanLoop(path, r + 2, o2, Len(o2), rooted)
                  ELSE CleanLoop(path, r + 2, out, dotdot, rooted)
        ELSE LET o1 == IF (rooted /\ Len(out) # 1) \/ (~rooted /\ Len(out) # 0)
                       THEN out \o <<"/">> ELSE out
                 e == NextSlash(path, r)
             IN  CleanLoop(path, e, o1 \o Slice(path, r, e), dotdot, rooted)

\* filepath.Clean
Clean(path) ==
    IF path = <<>> THEN <<".">>
    ELSE LET rooted == path[1] = "/"
             out == IF rooted
                    THEN CleanLoop(path, 1, <<"/">>, 1, TRUE)
                    ELSE CleanLoop(path, 0, <<>>, 0, FALSE)
         IN  IF out = <<>> THEN <<".">> ELSE out

\* strings.LastIndex(s, "/") + 1
RECURSIVE LastSlash(_, _)
LastSlash(s, i) ==
    IF i = 0 THEN 0 ELSE IF s[i] = "/" THEN i ELSE LastSlash(s, i - 1)

\* filepath.Split: the directory (with its trailing separator) and the file
Split(path) ==
    LET i == LastSlash(path, Len(path))
    IN  [dir |-> Slice(path, 0, i), file |-> Slice(path, i, Len(path))]

\* filepath.Join of two elements: empty elements are ignored and the result
\* is cleaned; all elements empty gives the empty string
Join(a, b) ==
    IF a # <<>> THEN Clean(a \o <<"/">> \o b)
    ELSE IF b # <<>> THEN Clean(b)
    ELSE <<>>

\* the loop of filepath.Rel that positions base[b0:bi] and targ[t0:ti] at
\* the first differing elements
RECURSIVE RelLoop(_, _, _, _, _, _)
RelLoop(base, targ, b0, bi, t0, ti) ==
    IF bi < Len(base) /\ ti < Len(targ)
    THEN LET nb == NextSlash(base, bi)
             nt == NextSlash(targ, ti)
         IN  IF Slice(targ, ti, nt) # Slice(base, bi, nb)
             THEN [b0 |-> bi, bi |-> nb, t0 |-> ti, ti |-> nt]
             ELSE LET b2 == IF nb < Len(base) THEN nb + 1 ELSE nb
                      t2 == IF nt < Len(targ) THEN nt + 1 ELSE nt
                  IN  RelLoop(base, targ, b2, b2, t2, t2)
    ELSE [b0 |-> b0, bi |-> bi, t0 |-> t0, ti |-> ti]

\* ".." repeated for every "/" counted, each preceded by a separator
RECURSIVE UpDirs(_)
UpDirs(seps) ==
    IF seps = 0 THEN <<>> ELSE <<"/", ".", ".">> \o UpDirs(seps - 1)

\* filepath.Rel(basepath, targpath): [err, rel]
Rel(basepath, targpath) ==
    LET base0 == Clean(basepath)
        targ == Clean(targpath)
        base == IF base0 = <<".">> THEN <<>> ELSE base0
        baseSlashed == Len(base) > 0 /\ base[1] = "/"
        targSlashed == Len(targ) > 0 /\ targ[1] = "/"
        p == RelLoop(base, targ, 0, 0, 0, 0)
        bl == Len(base)
        tl == Len(targ)
    IN  IF targ = base0 THEN [err |-> FALSE, rel |-> <<".">>]
        ELSE IF baseSlashed # targSlashed THEN [err |-> TRUE, rel |-> <<>>]
        ELSE IF Slice(base, p.b0, p.bi) = <<".", ".">>
             THEN [err |-> TRUE, rel |-> <<>>]
        ELSE IF p.b0 # bl
             THEN [err |-> FALSE,
                   rel |-> <<".", ".">>
                           \o UpDirs(CountSlash(Slice(base, p.b0, bl)))
                           \o (IF p.t0 # tl
                               THEN <<"/">> \o Slice(targ, p.t0, tl)
                               ELSE <<>>)]
        ELSE [err |-> FALSE, rel |-> Slice(targ, p.t0, tl)]

\* ------------------------------------------------------------ state

VARIABLES
    \* LayerTar.Walk (tar.go:31-84)
    wSkipFiles,   \* w.skipFiles: the skip-file paths given at construction
    wSkipDirs,    \* w.skipDirs: the skip-dir paths given at construction
    layer,        \* the tar stream: a sequence of headers [name, typeflag]
    pos,          \* number of headers tr.Next() has returned
    pc,           \* "idle" | "loop" | "analyze" | "returned"
    opqDirs,      \* var opqDirs
    whFiles,      \* var whFiles
    skipDirs,     \* var skipDirs
    calls,        \* history: indices of the entries analyzeFn was invoked for
    consulted,    \* history: indices shouldSkipDir/shouldSkipFile was asked about
    skipped,      \* history: indices appended to skipDirs
    fault,        \* history: "none" | "header" | "callback", the failure met
    ret,          \* the values Walk returned: [opqDirs, whFiles, err]
    \* one closure returned by fileWithTarOpener (tar.go:102-165)
    fiSize,       \* fi.Size()
    content,      \* the bytes of the entry in the tar stream
    rd,           \* what is left to read from r
    once,         \* sync.Once: "new" | "running" | "done"
    b,            \* var b []byte
    tempFilePath, \* var tempFilePath: 0 for "", or the number of the directory
                  \* the file is in
    tempDirPath,  \* var tempDirPath: 0 for "", or the number of the directory
    err,          \* var err ("nil" or the wrapped error)
    fs,           \* the temp directories on disk: name -> [file, data]
    cpc,          \* per caller: "idle" | "do" | "mat" | "ret"
    ninv,         \* per caller: opener invocations started
    results,      \* history: what the opener invocations returned, in order
    nMat,         \* history: executions of the function given to once.Do
    nReads,       \* history: reads of r (io.Copy / io.ReadAll)
    nTempDirs,    \* history: ioutil.TempDir calls that created a directory
    nTempFiles,   \* history: os.CreateTemp calls that created a file
    \* the content factories handed out by one Walk (tar.go:78, 102-143)
    bad,          \* the entries whose content cannot be read from the stream
    trAt,         \* the entry tr last gave bytes of, 0 for none
    trN,          \* how many bytes of that entry tr has given
    fac,          \* entry -> what its closure holds once once.Do has run:
                  \* [err, data]; an entry not in the domain has a new closure
    opens,        \* history: the opener invocations and what they returned
    \* two Walk invocations on one LayerTar value (tar.go:31-84)
    walks,        \* invocation -> its stream and its local variables
    \* openeulerOSAnalyzer.Analyze (part_000:32-52)
    input,        \* input.Content: the lines of the file
    lineNo,       \* lines scanner.Scan() has returned
    openeulerName,\* openeulerName
    result        \* what Analyze returned: [kind, family, name]

walkVars == <<wSkipFiles, wSkipDirs, layer, pos, pc, opqDirs, whFiles,
              skipDirs, calls, consulted, skipped, fault, ret>>
openerVars == <<fiSize, content, rd, once, b, tempFilePath, tempDirPath, err,
                fs, cpc, ninv, results, nMat, nReads, nTempDirs,
                nTempFiles>>
lazyVars == <<bad, trAt, trN, fac, opens>>
twoVars == <<walks>>
anVars == <<input, lineNo, openeulerName, result>>
auxVars == <<lazyVars, twoVars, anVars>>
vars == <<walkVars, openerVars, auxVars>>

\* ------------------------------------------------------------ bounds

\* longest tar stream walked
MaxEntries == 3
\* opener invocations one caller makes
MaxInvocations == 2

\* ------------------------------------------------------------ inputs

pD == <<"d">>
pDF == <<"d", "/", "f">>
pDE == <<"d", "/", "e">>
pUpX == <<".", ".", "/", "x">>
pG == <<"g">>
pDOpq == <<"d", "/">> \o opq
pDWhF == <<"d", "/">> \o wh \o <<"f">>

\* the headers a stream is made of: hdr.Name as written in the archive, and
\* hdr.Typeflag ("char" stands for the types the switch has no case for)
Headers ==
    { [name |-> <<"d", "/">>, typeflag |-> "dir"],
      [name |-> <<"/", "d", "/", "f">>, typeflag |-> "reg"],
      [name |-> pDF, typeflag |-> "char"],
      [name |-> <<"d", "/", "e", "/">>, typeflag |-> "dir"],
      [name |-> <<".", ".", "/", "x", "/">>, typeflag |-> "dir"],
      [name |-> pG, typeflag |-> "symlink"],
      [name |-> pDOpq, typeflag |-> "char"],
      [name |-> pDWhF, typeflag |-> "link"],
      [name |-> <<"d", "/">> \o wh, typeflag |-> "reg"],
      [name |-> wh, typeflag |-> "symlink"],
      [name |-> <<"d", "/">> \o wh \o <<"f", "/">>, typeflag |-> "dir"] }

\* the skip configurations NewLayerTar is given
Configs ==
    { [files |-> {}, dirs |-> {}],
      [files |-> {pG, pDWhF}, dirs |-> {pUpX, pD, pDWhF}],
      [files |-> {pDOpq, pDF}, dirs |-> {pDE}] }

Streams == UNION { [1..n -> Headers] : n \in 0..MaxEntries }

\* ------------------------------------------------------------ Walk

\* filePath = strings.TrimLeft(filepath.Clean(hdr.Name), "/")
FilePath(hdr) == TrimLeftSlash(Clean(hdr.name))
FileDir(hdr) == Split(FilePath(hdr)).dir
FileName(hdr) == Split(FilePath(hdr)).file

\* walker.shouldSkipDir: is the path one of the configured skip dirs
shouldSkipDir(dir) == dir \in wSkipDirs

\* walker.shouldSkipFile: is the path one of the configured skip files
shouldSkipFile(filePath) == filePath \in wSkipFiles

\* underSkippedDir: the loop over skipDirs, first to last
RECURSIVE underSkippedDir(_, _)
underSkippedDir(filePath, sd) ==
    IF sd = <<>> THEN FALSE
    ELSE LET r == Rel(Head(sd), filePath)
         IN  IF r.err THEN FALSE
             ELSE IF ~HasPrefix(r.rel, <<".", ".", "/">>) THEN TRUE
             ELSE underSkippedDir(filePath, Tail(sd))

\* WhJoin with the prefix left on the name
WhJoinUnstripped(parts) == Join(parts.dir, parts.file)

\* the whiteout path appended for a ".wh." entry, from the two parts of
\* the split path: filepath.Join(fileDir, strings.TrimPrefix(fileName, wh))
WhJoin(parts) == Join(parts.dir, TrimPrefix(parts.file, wh))
WhPath(hdr) == WhJoin(Split(FilePath(hdr)))

\* ClassifyParts with the switch on the type before the marker tests
ClassifyTypeFirst(fileName, filePath, typeflag, sd) ==
    IF typeflag \notin {"dir", "symlink", "link", "reg"} THEN "other"
    ELSE IF fileName = opq THEN "opq"
    ELSE IF HasPrefix(fileName, wh) THEN "wh"
    ELSE IF typeflag = "dir" /\ shouldSkipDir(filePath) THEN "skipdir"
    ELSE IF typeflag \in {"symlink", "link", "reg"} /\ shouldSkipFile(filePath)
         THEN "skipfile"
    ELSE IF underSkippedDir(filePath, sd) THEN "under"
    ELSE "deliver"

\* ClassifyParts with the skip filter and the containment test before the
\* marker tests
ClassifySkipFirst(fileName, filePath, typeflag, sd) ==
    IF typeflag = "dir" /\ shouldSkipDir(filePath) THEN "skipdir"
    ELSE IF typeflag \in {"symlink", "link", "reg"} /\ shouldSkipFile(filePath)
         THEN "skipfile"
    ELSE IF underSkippedDir(filePath, sd) THEN "under"
    ELSE IF fileName = opq THEN "opq"
    ELSE IF HasPrefix(fileName, wh) THEN "wh"
    ELSE IF typeflag \notin {"dir", "symlink", "link", "reg"} THEN "other"
    ELSE "deliver"

\* the branch one loop iteration takes, in the order of the code
ClassifyParts(fileName, filePath, typeflag, sd) ==
    IF fileName = opq THEN "opq"
    ELSE IF HasPrefix(fileName, wh) THEN "wh"
    ELSE IF typeflag = "dir" /\ shouldSkipDir(filePath) THEN "skipdir"
    ELSE IF typeflag \in {"symlink", "link", "reg"} /\ shouldSkipFile(filePath)
         THEN "skipfile"
    ELSE IF typeflag \notin {"dir", "symlink", "link", "reg"} THEN "other"
    ELSE IF underSkippedDir(filePath, sd) THEN "under"
    ELSE "deliver"

ClassifyPath(filePath, typeflag, sd) ==
    ClassifyParts(Split(filePath).file, filePath, typeflag, sd)

Classify(hdr, sd) == ClassifyPath(FilePath(hdr), hdr.typeflag, sd)

\* the branches on which shouldSkipDir or shouldSkipFile was called: those
\* that reach the switch with one of its four types
AsksFilter(class) == class \in {"skipdir", "skipfile", "under", "deliver"}

\* ErrReturn handing back what was accumulated
ErrReturnPartial(opqs, whs, e) == [opqDirs |-> opqs, whFiles |-> whs, err |-> e]

\* return nil, nil, err
ErrReturn(opqs, whs, e) == [opqDirs |-> <<>>, whFiles |-> <<>>, err |-> e]

\* the header tr.Next() returns next
Hdr == layer[pos + 1]

\* one iteration that reads a header and takes the branch c
Iteration(c) ==
    /\ pc = "loop"
    /\ pos < Len(layer)
    /\ Classify(Hdr, skipDirs) = c
    /\ pos' = pos + 1
    /\ consulted' = IF AsksFilter(c) THEN consulted \cup {pos + 1}
                    ELSE consulted
    /\ UNCHANGED <<wSkipFiles, wSkipDirs, layer, fault, ret, openerVars, auxVars>>

\* StepOpq that also records the opaque directory as a skipped one
StepOpqSuppress ==
    /\ Iteration("opq")
    /\ opqDirs' = Append(opqDirs, FileDir(Hdr))
    /\ skipDirs' = Append(skipDirs, FileDir(Hdr))
    /\ UNCHANGED <<pc, whFiles, calls, skipped>>

\* tar.go:47-50
StepOpq ==
    /\ Iteration("opq")
    /\ opqDirs' = Append(opqDirs, FileDir(Hdr))
    /\ UNCHANGED <<pc, whFiles, skipDirs, calls, skipped>>

\* tar.go:52-57
StepWh ==
    /\ Iteration("wh")
    /\ whFiles' = Append(whFiles, WhPath(Hdr))
    /\ UNCHANGED <<pc, opqDirs, skipDirs, calls, skipped>>

\* tar.go:60-64
StepSkipDir ==
    /\ Iteration("skipdir")
    /\ skipDirs' = Append(skipDirs, FilePath(Hdr))
    /\ skipped' = skipped \cup {pos + 1}
    /\ UNCHANGED <<pc, opqDirs, whFiles, calls>>

\* tar.go:65-68
StepSkipFile ==
    /\ Iteration("skipfile")
    /\ UNCHANGED <<pc, opqDirs, whFiles, skipDirs, calls, skipped>>

\* tar.go:69-70
StepOther ==
    /\ Iteration("other")
    /\ UNCHANGED <<pc, opqDirs, whFiles, skipDirs, calls, skipped>>

\* tar.go:73-75
StepUnder ==
    /\ Iteration("under")
    /\ UNCHANGED <<pc, opqDirs, whFiles, skipDirs, calls, skipped>>

\* the content of entry i in the stream
Data(i) == layer[i].data

\* a tar reader whose Next() leaves the unread content of the entry before
\* in front of the content of the new one
TrRestNoSkip ==
    IF pos > 1 /\ trAt < pos - 1
    THEN Data(pos - 1) \o Data(pos)
    ELSE Slice(Data(pos), IF trAt = pos THEN trN ELSE 0, Len(Data(pos)))

\* what reading tr to its end gives: tr.Next() (tar.go:35) has put tr at
\* the content of entry pos, whatever was read of the entries before, and
\* tr gives the bytes of that entry only, each of them once
TrRest ==
    Slice(Data(pos), IF trAt = pos THEN trN ELSE 0, Len(Data(pos)))

\* a delivery that materializes the content before it calls analyzeFn
StepDeliverEager ==
    /\ pc = "loop"
    /\ pos < Len(layer)
    /\ Classify(Hdr, skipDirs) = "deliver"
    /\ pos' = pos + 1
    /\ consulted' = consulted \cup {pos + 1}
    /\ calls' = Append(calls, pos + 1)
    /\ pc' = "analyze"
    /\ fac' = ((pos + 1) :> [err |-> "nil", data |-> Data(pos + 1)]) @@ fac
    /\ trAt' = pos + 1
    /\ trN' = Len(Data(pos + 1))
    /\ UNCHANGED <<wSkipFiles, wSkipDirs, layer, fault, ret, opqDirs, whFiles,
                   skipDirs, skipped, openerVars, twoVars, anVars, bad,
                   opens>>

\* tar.go:78: w.fileWithTarOpener makes the closure (tar.go:102-110, 164)
\* and analyzeFn is called for the entry
StepDeliver ==
    /\ Iteration("deliver")
    /\ calls' = Append(calls, pos + 1)
    /\ pc' = "analyze"
    /\ UNCHANGED <<opqDirs, whFiles, skipDirs, skipped>>

\* tar.go:79, err == nil: the callback returned without an error
AnalyzeOk ==
    /\ pc = "analyze"
    /\ pc' = "loop"
    /\ UNCHANGED <<wSkipFiles, wSkipDirs, layer, pos, opqDirs, whFiles,
                   skipDirs, calls, consulted, skipped, fault, ret,
                   openerVars, auxVars>>

\* an AnalyzeErr that notes the error and goes on with the next entry
AnalyzeErrContinue ==
    /\ pc = "analyze"
    /\ fault' = "callback"
    /\ ret' = ErrReturn(opqDirs, whFiles, "failed to analyze file")
    /\ pc' = "loop"
    /\ UNCHANGED <<wSkipFiles, wSkipDirs, layer, pos, opqDirs, whFiles,
                   skipDirs, calls, consulted, skipped, openerVars, auxVars>>

\* tar.go:79-81: the callback returned an error
AnalyzeErr ==
    /\ pc = "analyze"
    /\ fault' = "callback"
    /\ ret' = ErrReturn(opqDirs, whFiles, "failed to analyze file")
    /\ pc' = "returned"
    /\ UNCHANGED <<wSkipFiles, wSkipDirs, layer, pos, opqDirs, whFiles,
                   skipDirs, calls, consulted, skipped, openerVars, auxVars>>

\* tar.go:35-37 and 83: tr.Next() returns io.EOF at the end of the stream
NextEOF ==
    /\ pc = "loop"
    /\ pos = Len(layer)
    /\ ret' = [opqDirs |-> opqDirs, whFiles |-> whFiles, err |-> "nil"]
    /\ pc' = "returned"
    /\ UNCHANGED <<wSkipFiles, wSkipDirs, layer, pos, opqDirs, whFiles,
                   skipDirs, calls, consulted, skipped, fault, openerVars, auxVars>>

\* a NextErr that notes the error and goes on reading
NextErrContinue ==
    /\ pc = "loop"
    /\ fault' = "header"
    /\ ret' = ErrReturn(opqDirs, whFiles, "failed to extract the archive")
    /\ pc' = "loop"
    /\ UNCHANGED <<wSkipFiles, wSkipDirs, layer, pos, opqDirs, whFiles,
                   skipDirs, calls, consulted, skipped, openerVars, auxVars>>

\* tar.go:38-40: tr.Next() fails (a corrupt or truncated archive)
NextErr ==
    /\ pc = "loop"
    /\ fault' = "header"
    /\ ret' = ErrReturn(opqDirs, whFiles, "failed to extract the archive")
    /\ pc' = "returned"
    /\ UNCHANGED <<wSkipFiles, wSkipDirs, layer, pos, opqDirs, whFiles,
                   skipDirs, calls, consulted, skipped, openerVars, auxVars>>

\* the opener's variables while no opener is under study
OpenerIdle ==
    /\ fiSize = 0 /\ content = <<>> /\ rd = <<>> /\ once = "new"
    /\ b = <<>> /\ tempFilePath = 0 /\ tempDirPath = 0 /\ err = "nil"
    /\ fs = <<>> /\ cpc = <<>> /\ ninv = <<>> /\ results = <<>>
    /\ nMat = 0 /\ nReads = 0 /\ nTempDirs = 0 /\ nTempFiles = 0

\* no content factory has been invoked
LazyIdle ==
    /\ bad = {} /\ trAt = 0 /\ trN = 0 /\ fac = <<>> /\ opens = <<>>

\* no second Walk is under study
TwoIdle == walks = <<>>

\* Analyze has not been called
AnIdle ==
    /\ input = <<>> /\ lineNo = 0 /\ openeulerName = ""
    /\ result = [kind |-> "idle", family |-> "", name |-> <<>>]

\* NewLayerTar(skipFiles, skipDirs) and the entry into Walk (tar.go:25-33)
Init ==
    /\ \E c \in Configs : wSkipFiles = c.files /\ wSkipDirs = c.dirs
    /\ layer \in Streams
    /\ pos = 0
    /\ pc = "loop"
    /\ opqDirs = <<>> /\ whFiles = <<>> /\ skipDirs = <<>>
    /\ calls = <<>> /\ consulted = {} /\ skipped = {}
    /\ fault = "none"
    /\ ret = [opqDirs |-> <<>>, whFiles |-> <<>>, err |-> "nil"]
    /\ OpenerIdle
    /\ LazyIdle
    /\ TwoIdle
    /\ AnIdle

Next ==
    \/ StepOpq
    \/ StepWh
    \/ StepSkipDir
    \/ StepSkipFile
    \/ StepOther
    \/ StepUnder
    \/ StepDeliver
    \/ AnalyzeOk
    \/ AnalyzeErr
    \/ NextEOF
    \/ NextErr

Spec == Init /\ [][Next]_vars

\* ------------------------------------------------------------ Walk with
\* callbacks that invoke the content factories

\* opener invocations made during one Walk
MaxOpens == 2
\* longest stream walked with content
MaxLazyEntries == 3

LazyHeaders ==
    { [name |-> pG, typeflag |-> "reg", data |-> <<"a", "b">>],
      [name |-> <<"/", "d", "/", "f">>, typeflag |-> "reg", data |-> <<"c">>],
      [name |-> <<"d", "/">>, typeflag |-> "dir", data |-> <<>>],
      [name |-> pDE, typeflag |-> "link", data |-> <<>>],
      [name |-> pDF, typeflag |-> "char", data |-> <<>>],
      [name |-> pDOpq, typeflag |-> "char", data |-> <<>>],
      [name |-> pDWhF, typeflag |-> "link", data |-> <<>>] }

LazyStreams == UNION { [1..n -> LazyHeaders] : n \in 0..MaxLazyEntries }

\* a Walk over a stream with content, some of it unreadable
LazyInit ==
    /\ wSkipFiles = {pDE} /\ wSkipDirs = {pD}
    /\ layer \in LazyStreams
    /\ pos = 0
    /\ pc = "loop"
    /\ opqDirs = <<>> /\ whFiles = <<>> /\ skipDirs = <<>>
    /\ calls = <<>> /\ consulted = {} /\ skipped = {}
    /\ fault = "none"
    /\ ret = [opqDirs |-> <<>>, whFiles |-> <<>>, err |-> "nil"]
    /\ OpenerIdle
    /\ bad \in SUBSET { i \in DOMAIN layer : layer[i].data # <<>> }
    /\ trAt = 0 /\ trN = 0 /\ fac = <<>> /\ opens = <<>>
    /\ TwoIdle
    /\ AnIdle

\* the callback that is running holds the factory of entry i
Holds(i) == pc = "analyze" /\ \E k \in DOMAIN calls : calls[k] = i

\* what an opener invocation on the factory of entry i, made during the
\* callback of entry pos, returned
Opened(i, first, e, bytes) ==
    [entry |-> i, at |-> pos, first |-> first, err |-> e, bytes |-> bytes]

\* once.Do has run before: the closure returns what it holds
\* (tar.go:111, 141-163)
OpenCached(i) ==
    /\ Holds(i)
    /\ Len(opens) < MaxOpens
    /\ i \in DOMAIN fac
    /\ opens' = Append(opens, Opened(i, FALSE, fac[i].err, fac[i].data))
    /\ UNCHANGED <<walkVars, openerVars, twoVars, anVars, bad, trAt, trN, fac>>

\* the first invocation: once.Do reads r, which is tr, to its end
\* (tar.go:111-140)
OpenFirstOk(i) ==
    /\ Holds(i)
    /\ Len(opens) < MaxOpens
    /\ i \notin DOMAIN fac
    /\ pos \notin bad \/ TrRest = <<>>
    /\ fac' = (i :> [err |-> "nil", data |-> TrRest]) @@ fac
    /\ trAt' = pos
    /\ trN' = Len(Data(pos))
    /\ opens' = Append(opens, Opened(i, TRUE, "nil", TrRest))
    /\ UNCHANGED <<walkVars, openerVars, twoVars, anVars, bad>>

\* the first invocation, and reading r fails after n bytes (tar.go:126-130,
\* 134-138, 141-143)
OpenFirstErr(i) ==
    /\ Holds(i)
    /\ Len(opens) < MaxOpens
    /\ i \notin DOMAIN fac
    /\ pos \in bad /\ TrRest # <<>>
    /\ \E n \in 0..(Len(TrRest) - 1) :
           /\ trAt' = pos
           /\ trN' = Len(Data(pos)) - Len(TrRest) + n
    /\ fac' = (i :> [err |-> "failed to once do", data |-> <<>>]) @@ fac
    /\ opens' = Append(opens, Opened(i, TRUE, "failed to once do", <<>>))
    /\ UNCHANGED <<walkVars, openerVars, twoVars, anVars, bad>>

LazyNext ==
    \/ StepOpq
    \/ StepWh
    \/ StepSkipDir
    \/ StepSkipFile
    \/ StepOther
    \/ StepUnder
    \/ StepDeliver
    \/ AnalyzeOk
    \/ AnalyzeErr
    \/ NextEOF
    \/ NextErr
    \/ \E i \in 1..MaxLazyEntries :
           \/ OpenCached(i)
           \/ OpenFirstOk(i)
           \/ OpenFirstErr(i)

SpecLazy == LazyInit /\ [][LazyNext]_vars


\* ------------------------------------------------------------ opener

\* ThresholdSize: 200 MiB
ThresholdSize == 209715200

\* the goroutines that call one entry's opener
Callers == {"c1", "c2"}

\* fi.Size() of the entries studied, around the threshold
Sizes == {ThresholdSize - 1, ThresholdSize, ThresholdSize + 1}

\* the bytes of an entry, standing for its fi.Size() bytes
Contents == {<<"x">>, <<"x", "y">>}

\* Spooled with the threshold itself left to the buffer
SpooledAbove(size) == size > ThresholdSize

\* fi.Size() >= ThresholdSize (tar.go:112, 145)
Spooled(size) == size >= ThresholdSize

walkIdle ==
    /\ wSkipFiles = {} /\ wSkipDirs = {} /\ layer = <<>> /\ pos = 0
    /\ pc = "idle"
    /\ opqDirs = <<>> /\ whFiles = <<>> /\ skipDirs = <<>>
    /\ calls = <<>> /\ consulted = {} /\ skipped = {}
    /\ fault = "none"
    /\ ret = [opqDirs |-> <<>>, whFiles |-> <<>>, err |-> "nil"]

\* fileWithTarOpener(fi, r) has returned the closure (tar.go:102-110)
OpenerInit ==
    /\ walkIdle
    /\ fiSize \in Sizes
    /\ content \in Contents
    /\ rd = content
    /\ once = "new"
    /\ b = <<>> /\ tempFilePath = 0 /\ tempDirPath = 0 /\ err = "nil"
    /\ fs = <<>>
    /\ cpc = [c \in Callers |-> "idle"]
    /\ ninv = [c \in Callers |-> 0]
    /\ results = <<>>
    /\ nMat = 0 /\ nReads = 0 /\ nTempDirs = 0 /\ nTempFiles = 0
    /\ LazyIdle
    /\ TwoIdle
    /\ AnIdle

\* a caller invokes the closure and reaches once.Do (tar.go:110-111)
Call(c) ==
    /\ cpc[c] = "idle"
    /\ ninv[c] < MaxInvocations
    /\ cpc' = [cpc EXCEPT ![c] = "do"]
    /\ ninv' = [ninv EXCEPT ![c] = @ + 1]
    /\ UNCHANGED <<walkVars, auxVars, fiSize, content, rd, once, b, tempFilePath,
                   tempDirPath, err, fs, results, nMat, nReads, nTempDirs,
                   nTempFiles>>

\* DoFirst without the barrier: the function is entered and once is left as
\* it was until the function has run
DoFirstUnguarded(c) ==
    /\ cpc[c] = "do"
    /\ once = "new"
    /\ cpc' = [cpc EXCEPT ![c] = "mat"]
    /\ UNCHANGED <<walkVars, auxVars, fiSize, content, rd, once, b, tempFilePath,
                   tempDirPath, err, fs, ninv, results, nMat, nReads,
                   nTempDirs, nTempFiles>>

\* once.Do, first caller: it runs the function; callers that arrive while
\* it runs wait in Do
DoFirst(c) ==
    /\ cpc[c] = "do"
    /\ once = "new"
    /\ once' = "running"
    /\ cpc' = [cpc EXCEPT ![c] = "mat"]
    /\ UNCHANGED <<walkVars, auxVars, fiSize, content, rd, b, tempFilePath,
                   tempDirPath, err, fs, ninv, results, nMat, nReads,
                   nTempDirs, nTempFiles>>

\* once.Do, after the function has run: Do returns at once
DoDone(c) ==
    /\ cpc[c] = "do"
    /\ once = "done"
    /\ cpc' = [cpc EXCEPT ![c] = "ret"]
    /\ UNCHANGED <<walkVars, auxVars, fiSize, content, rd, once, b, tempFilePath,
                   tempDirPath, err, fs, ninv, results, nMat, nReads,
                   nTempDirs, nTempFiles>>

\* the end of the function given to once.Do
Materialized(c) ==
    /\ nMat' = nMat + 1
    /\ once' = "done"
    /\ cpc' = [cpc EXCEPT ![c] = "ret"]
    /\ UNCHANGED <<walkVars, auxVars, fiSize, content, ninv, results>>

\* tar.go:114-118: ioutil.TempDir fails
MatTempDirErr(c) ==
    /\ cpc[c] = "mat" /\ Spooled(fiSize)
    /\ tempDirPath' = 0
    /\ err' = "failed to create the temp dir"
    /\ Materialized(c)
    /\ UNCHANGED <<rd, b, tempFilePath, fs, nReads, nTempDirs, nTempFiles>>

\* tar.go:114-124: the directory is made and os.CreateTemp fails
MatTempFileErr(c) ==
    /\ cpc[c] = "mat" /\ Spooled(fiSize)
    /\ tempDirPath' = nTempDirs + 1
    /\ nTempDirs' = nTempDirs + 1
    /\ fs' = ((nTempDirs + 1) :> [file |-> FALSE, data |-> <<>>]) @@ fs
    /\ err' = "failed to create the temp file"
    /\ Materialized(c)
    /\ UNCHANGED <<rd, b, tempFilePath, nReads, nTempFiles>>

\* tar.go:114-130: directory and file are made and io.Copy fails after n bytes
MatCopyErr(c) ==
    /\ cpc[c] = "mat" /\ Spooled(fiSize)
    /\ \E n \in 0..Len(rd) :
           /\ fs' = ((nTempDirs + 1) :> [file |-> TRUE, data |-> Slice(rd, 0, n)])
                    @@ fs
           /\ rd' = Slice(rd, n, Len(rd))
    /\ tempDirPath' = nTempDirs + 1
    /\ nTempDirs' = nTempDirs + 1
    /\ nTempFiles' = nTempFiles + 1
    /\ nReads' = nReads + 1
    /\ err' = "failed to copy"
    /\ Materialized(c)
    /\ UNCHANGED <<b, tempFilePath>>

\* tar.go:114-132: the stream is copied to the file
MatSpool(c) ==
    /\ cpc[c] = "mat" /\ Spooled(fiSize)
    /\ fs' = ((nTempDirs + 1) :> [file |-> TRUE, data |-> rd]) @@ fs
    /\ rd' = <<>>
    /\ tempDirPath' = nTempDirs + 1
    /\ tempFilePath' = nTempDirs + 1
    /\ nTempDirs' = nTempDirs + 1
    /\ nTempFiles' = nTempFiles + 1
    /\ nReads' = nReads + 1
    /\ err' = "nil"
    /\ Materialized(c)
    /\ UNCHANGED <<b>>

\* tar.go:134-138: io.ReadAll fails after n bytes
MatReadErr(c) ==
    /\ cpc[c] = "mat" /\ ~Spooled(fiSize)
    /\ \E n \in 0..Len(rd) :
           /\ b' = Slice(rd, 0, n)
           /\ rd' = Slice(rd, n, Len(rd))
    /\ nReads' = nReads + 1
    /\ err' = "unable to read the file"
    /\ Materialized(c)
    /\ UNCHANGED <<tempFilePath, tempDirPath, fs, nTempDirs, nTempFiles>>

\* tar.go:134: the stream is drained into b
MatBuffer(c) ==
    /\ cpc[c] = "mat" /\ ~Spooled(fiSize)
    /\ b' = rd
    /\ rd' = <<>>
    /\ nReads' = nReads + 1
    /\ err' = "nil"
    /\ Materialized(c)
    /\ UNCHANGED <<tempFilePath, tempDirPath, fs, nTempDirs, nTempFiles>>

\* a releaseFunc of this entry has been called
Released == \E k \in DOMAIN results : results[k].released

\* os.Open(tempFilePath) finds the file
FileThere == tempFilePath \in DOMAIN fs /\ fs[tempFilePath].file

\* what an invocation returns: kind is "error", "file" (an *os.File on the
\* spooled file) or "buffer" (a reader over b); e is the chain of wrapped
\* errors, empty for nil; bytes is what reading the handle from where it
\* stands to its end gives
Result(c, kind, e, bytes) ==
    [caller |-> c, kind |-> kind, err |-> e, bytes |-> bytes,
     after |-> Released, released |-> FALSE, relErr |-> "none"]

\* what the closure returns after once.Do, had it not looked at err
OutcomeUnchecked(c) ==
    IF Spooled(fiSize)
    THEN IF FileThere
         THEN Result(c, "file", <<>>, fs[tempFilePath].data)
         ELSE Result(c, "error", <<"failed to open the temp file">>, <<>>)
    ELSE Result(c, "buffer", <<>>, b)

\* what the closure returns after once.Do (tar.go:141-163)
Outcome(c) ==
    IF err # "nil"
    THEN Result(c, "error", <<"failed to once do", err>>, <<>>)
    ELSE IF Spooled(fiSize)
    THEN IF FileThere
         THEN Result(c, "file", <<>>, fs[tempFilePath].data)
         ELSE Result(c, "error", <<"failed to open the temp file">>, <<>>)
    ELSE Result(c, "buffer", <<>>, b)

\* the closure returns to its caller (tar.go:141-163)
Return(c) ==
    /\ cpc[c] = "ret"
    /\ results' = Append(results, Outcome(c))
    /\ cpc' = [cpc EXCEPT ![c] = "idle"]
    /\ UNCHANGED <<walkVars, auxVars, fiSize, content, rd, once, b, tempFilePath,
                   tempDirPath, err, fs, ninv, nMat, nReads, nTempDirs,
                   nTempFiles>>

\* a removal that reports a path that is not there
RemoveStrict(files, path) ==
    [fs |-> [d \in DOMAIN files \ {path} |-> files[d]],
     err |-> IF path \in DOMAIN files THEN "nil" ELSE "no such file or directory"]

\* os.RemoveAll(path): removes path and what it holds; a path that is not
\* there is not an error (tar.go:153)
RemoveAll(files, path) ==
    [fs |-> [d \in DOMAIN files \ {path} |-> files[d]], err |-> "nil"]

\* a releaseFunc that leaves the closure's buffer as it is
ReleaseKeep(k) ==
    /\ results[k].kind # "error"
    /\ ~results[k].released
    /\ LET r == IF results[k].kind = "file"
                THEN RemoveAll(fs, tempDirPath)
                ELSE [fs |-> fs, err |-> "nil"]
       IN  /\ results' = [results EXCEPT ![k].released = TRUE,
                                          ![k].relErr = r.err]
           /\ fs' = r.fs
           /\ b' = b
    /\ UNCHANGED <<walkVars, auxVars, fiSize, content, rd, once, tempFilePath,
                   tempDirPath, err, cpc, ninv, nMat, nReads, nTempDirs,
                   nTempFiles>>

\* the releaseFunc returned with the handle of result k is called
\* (tar.go:151-156 and 159-162); relErr is what it returns
Release(k) ==
    /\ results[k].kind # "error"
    /\ ~results[k].released
    /\ LET r == IF results[k].kind = "file"
                THEN RemoveAll(fs, tempDirPath)
                ELSE [fs |-> fs, err |-> "nil"]
       IN  /\ results' = [results EXCEPT ![k].released = TRUE,
                                          ![k].relErr = r.err]
           /\ fs' = r.fs
           /\ b' = IF results[k].kind = "file" THEN b ELSE <<>>
    /\ UNCHANGED <<walkVars, auxVars, fiSize, content, rd, once, tempFilePath,
                   tempDirPath, err, cpc, ninv, nMat, nReads, nTempDirs,
                   nTempFiles>>

OpenerNext ==
    \/ \E c \in Callers :
           \/ Call(c)
           \/ DoFirst(c)
           \/ DoDone(c)
           \/ MatTempDirErr(c)
           \/ MatTempFileErr(c)
           \/ MatCopyErr(c)
           \/ MatSpool(c)
           \/ MatReadErr(c)
           \/ MatBuffer(c)
           \/ Return(c)
    \/ \E k \in DOMAIN results : Release(k)

SpecOpener == OpenerInit /\ [][OpenerNext]_vars

\* ------------------------------------------------------------ two Walks
\* on one LayerTar value

\* longest stream either Walk reads
MaxTwoEntries == 2

WalkIds == {1, 2}

TwoHeaders ==
    { [name |-> <<"d", "/">>, typeflag |-> "dir"],
      [name |-> <<"/", "d", "/", "f">>, typeflag |-> "reg"],
      [name |-> pDOpq, typeflag |-> "char"] }

TwoStreams == UNION { [1..n -> TwoHeaders] : n \in 0..MaxTwoEntries }

\* the variables of one invocation (tar.go:31-33); at is a history: where
\* the other invocation stood at each of this one's iterations
Locals(stream) ==
    [layer |-> stream, pos |-> 0, pc |-> "loop",
     opqDirs |-> <<>>, whFiles |-> <<>>, skipDirs |-> <<>>,
     calls |-> <<>>, at |-> <<>>,
     ret |-> [opqDirs |-> <<>>, whFiles |-> <<>>, err |-> "nil"]]

\* one LayerTar, NewLayerTar(nil, {"d"}), and two Walk calls on it
TwoInit ==
    /\ wSkipFiles = {} /\ wSkipDirs = {pD}
    /\ layer = <<>> /\ pos = 0 /\ pc = "idle"
    /\ opqDirs = <<>> /\ whFiles = <<>> /\ skipDirs = <<>>
    /\ calls = <<>> /\ consulted = {} /\ skipped = {}
    /\ fault = "none"
    /\ ret = [opqDirs |-> <<>>, whFiles |-> <<>>, err |-> "nil"]
    /\ OpenerIdle
    /\ LazyIdle
    /\ AnIdle
    /\ \E s \in [WalkIds -> TwoStreams] :
           walks = [id \in WalkIds |-> Locals(s[id])]

\* a skipDirs declared outside Walk, one list for every invocation
SharedSkipDirs(id) == walks[1].skipDirs \o walks[2].skipDirs

\* var skipDirs of the invocation (tar.go:32)
LocalSkipDirs(id) == walks[id].skipDirs

\* the locals of an invocation after the iteration on hdr that took the
\* branch class (tar.go:46-81); the callback returns nil
AfterIteration(w, hdr, class, otherPos) ==
    [w EXCEPT
        !.pos = @ + 1,
        !.at = Append(@, otherPos),
        !.opqDirs = IF class = "opq" THEN Append(@, FileDir(hdr)) ELSE @,
        !.whFiles = IF class = "wh" THEN Append(@, WhPath(hdr)) ELSE @,
        !.skipDirs = IF class = "skipdir" THEN Append(@, FilePath(hdr)) ELSE @,
        !.calls = IF class = "deliver" THEN Append(@, w.pos + 1) ELSE @]

\* one iteration of the loop of invocation id (tar.go:34-82)
TwoIteration(id) ==
    LET w == walks[id]
    IN  /\ w.pc = "loop"
        /\ w.pos < Len(w.layer)
        /\ walks' = [walks EXCEPT ![id] =
               AfterIteration(w, w.layer[w.pos + 1],
                              Classify(w.layer[w.pos + 1], LocalSkipDirs(id)),
                              walks[3 - id].pos)]
        /\ UNCHANGED <<walkVars, openerVars, lazyVars, anVars>>

\* invocation id reaches the end of its stream (tar.go:35-37, 83)
TwoEOF(id) ==
    LET w == walks[id]
    IN  /\ w.pc = "loop"
        /\ w.pos = Len(w.layer)
        /\ walks' = [walks EXCEPT ![id] =
               [w EXCEPT !.pc = "returned",
                         !.ret = [opqDirs |-> w.opqDirs,
                                  whFiles |-> w.whFiles, err |-> "nil"]]]
        /\ UNCHANGED <<walkVars, openerVars, lazyVars, anVars>>

TwoNext ==
    \E id \in WalkIds :
        \/ TwoIteration(id)
        \/ TwoEOF(id)

SpecTwo == TwoInit /\ [][TwoNext]_vars

\* ------------------------------------------------------------ openeuler
\* OS analyzer

\* most lines in the file analyzed
MaxLines == 3

\* aos.OpenEuler
OpenEuler == "openEuler"
\* aos.AnalyzeOSError
AnalyzeOSError == "unable to analyze OS information"

nameOpenEuler ==
    <<"N", "A", "M", "E", "=", "\"", "o", "p", "e", "n", "E", "u", "l", "e",
      "r">>
versionId == <<"V", "E", "R", "S", "I", "O", "N", "_", "I", "D", "=">>

FileLines ==
    { nameOpenEuler \o <<"\"">>,
      <<"N", "A", "M", "E", "=", "\"", "x", "\"">>,
      versionId \o <<"\"", "2", "\"">>,
      versionId \o <<"\"", "3", ".", "1", "\"">>,
      versionId \o <<"\"">>,
      versionId }

\* strings.TrimSpace, for the space and the tab
RECURSIVE TrimSpace(_)
TrimSpace(s) ==
    IF s = <<>> THEN s
    ELSE IF Head(s) \in {" ", "\t"} THEN TrimSpace(Tail(s))
    ELSE IF s[Len(s)] \in {" ", "\t"} THEN TrimSpace(Slice(s, 0, Len(s) - 1))
    ELSE s

\* Analyze is called on the content of a file (part_000:32-34)
AnInit ==
    /\ walkIdle
    /\ OpenerIdle
    /\ LazyIdle
    /\ TwoIdle
    /\ input \in UNION { [1..n -> FileLines] : n \in 0..MaxLines }
    /\ lineNo = 0
    /\ openeulerName = ""
    /\ result = [kind |-> "running", family |-> "", name |-> <<>>]

\* the line scanner.Text() returns next
Line == input[lineNo + 1]

Scanning == result.kind = "running" /\ lineNo < Len(input)

\* the slice expression line[12 : len(line)-1] is within bounds
SliceOk(line) == 12 <= Len(line) - 1

\* part_000:37-40
ScanName ==
    /\ Scanning
    /\ HasPrefix(Line, nameOpenEuler)
    /\ openeulerName' = OpenEuler
    /\ lineNo' = lineNo + 1
    /\ UNCHANGED <<walkVars, openerVars, lazyVars, twoVars, input, result>>

\* part_000:42-49
ScanVersion ==
    /\ Scanning
    /\ ~HasPrefix(Line, nameOpenEuler)
    /\ openeulerName # "" /\ HasPrefix(Line, versionId)
    /\ SliceOk(Line)
    /\ result' = [kind |-> "os", family |-> openeulerName,
                  name |-> TrimSpace(Slice(Line, 12, Len(Line) - 1))]
    /\ lineNo' = lineNo + 1
    /\ UNCHANGED <<walkVars, openerVars, lazyVars, twoVars, input,
                   openeulerName>>

\* part_000:46: the slice bounds are out of range and Analyze panics
ScanVersionPanic ==
    /\ Scanning
    /\ ~HasPrefix(Line, nameOpenEuler)
    /\ openeulerName # "" /\ HasPrefix(Line, versionId)
    /\ ~SliceOk(Line)
    /\ result' = [kind |-> "panic", family |-> "", name |-> <<>>]
    /\ lineNo' = lineNo + 1
    /\ UNCHANGED <<walkVars, openerVars, lazyVars, twoVars, input,
                   openeulerName>>

\* part_000:35-50: a line that neither test takes
ScanOther ==
    /\ Scanning
    /\ ~HasPrefix(Line, nameOpenEuler)
    /\ ~(openeulerName # "" /\ HasPrefix(Line, versionId))
    /\ lineNo' = lineNo + 1
    /\ UNCHANGED <<walkVars, openerVars, lazyVars, twoVars, input,
                   openeulerName, result>>

\* part_000:35, 51: scanner.Scan() returns false
ScanEnd ==
    /\ result.kind = "running"
    /\ lineNo = Len(input)
    /\ result' = [kind |-> "error", family |-> "", name |-> <<>>,
                  err |-> <<"openeuler", AnalyzeOSError>>]
    /\ UNCHANGED <<walkVars, openerVars, lazyVars, twoVars, input, lineNo,
                   openeulerName>>

AnNext ==
    \/ ScanName
    \/ ScanVersion
    \/ ScanVersionPanic
    \/ ScanOther
    \/ ScanEnd

SpecAnalyze == AnInit /\ [][AnNext]_vars

\* ------------------------------------------------------------ Walk: claims

Range(f) == { f[k] : k \in DOMAIN f }
PathOf(i) == FilePath(layer[i])
IsOpqEntry(i) == FileName(layer[i]) = opq
IsWhEntry(i) == ~IsOpqEntry(i) /\ HasPrefix(FileName(layer[i]), wh)
IsMarker(i) == IsOpqEntry(i) \/ IsWhEntry(i)
Succeeded == pc = "returned" /\ ret.err = "nil"

\* path is dir itself or a descendant of dir
UnderDir(path, dir) == path = dir \/ HasPrefix(path, dir \o <<"/">>)

\* the containing directories of the opaque markers among the first n entries
RECURSIVE OpqDirsUpTo(_)
OpqDirsUpTo(n) ==
    IF n = 0 THEN <<>>
    ELSE LET parts == Split(PathOf(n))
         IN  IF parts.file = opq THEN Append(OpqDirsUpTo(n - 1), parts.dir)
             ELSE OpqDirsUpTo(n - 1)

\* C1: an entry whose normalized base name is the opaque marker name is never
\* given to the callback, whatever its type and the skip configuration, and a
\* successful Walk returns the containing directories of these entries, one
\* item per entry, in stream order.
C1_OpaqueRecorded ==
    /\ \A k \in DOMAIN calls : ~IsOpqEntry(calls[k])
    /\ opqDirs = OpqDirsUpTo(pos)
    /\ Succeeded => ret.opqDirs = OpqDirsUpTo(Len(layer))

\* a successful Walk over an opaque marker of a type the switch would drop,
\* lying under a directory skipped before it
C1_Witness ==
    /\ Succeeded
    /\ ret.opqDirs = <<<<"d", "/">>>>
    /\ \E i \in skipped : \E j \in 1..Len(layer) :
           /\ i < j /\ IsOpqEntry(j)
           /\ layer[j].typeflag = "char"
           /\ UnderDir(PathOf(j), PathOf(i))

\* the base name of a whiteout entry with the prefix removed
Stripped(i) == TrimPrefix(FileName(layer[i]), wh)

\* directory + strippedName for the whiteout markers among the first n entries
RECURSIVE WhConcatUpTo(_)
WhConcatUpTo(n) ==
    IF n = 0 THEN <<>>
    ELSE LET parts == Split(PathOf(n))
         IN  IF parts.file # opq /\ HasPrefix(parts.file, wh)
             THEN Append(WhConcatUpTo(n - 1),
                         parts.dir \o TrimPrefix(parts.file, wh))
             ELSE WhConcatUpTo(n - 1)

\* C2 as stated: a whiteout entry is never given to the callback and a
\* successful Walk returns directory + strippedName for it, for every
\* stripped name, the empty one included.
C2_WhiteoutConcat ==
    /\ \A k \in DOMAIN calls : ~IsWhEntry(calls[k])
    /\ Succeeded => ret.whFiles = WhConcatUpTo(Len(layer))

\* a stripped name that is a plain path element
PlainName(name) == name \notin {<<>>, <<".">>, <<".", ".">>}

\* the lexically cleaned directory + strippedName for the whiteout markers
\* among the first n entries (empty when both parts are empty)
RECURSIVE WhCleanUpTo(_)
WhCleanUpTo(n) ==
    IF n = 0 THEN <<>>
    ELSE LET parts == Split(PathOf(n))
             name == TrimPrefix(parts.file, wh)
         IN  IF parts.file # opq /\ HasPrefix(parts.file, wh)
             THEN Append(WhCleanUpTo(n - 1),
                         IF PlainName(name) THEN parts.dir \o name
                         ELSE IF parts.dir \o name = <<>> THEN <<>>
                         ELSE Clean(parts.dir \o name))
             ELSE WhCleanUpTo(n - 1)

\* C2 amended: a whiteout entry is never given to the callback and a
\* successful Walk returns, for each, directory + strippedName when the
\* stripped name is a plain element, and the lexically cleaned form of
\* directory + strippedName when the stripped name is empty, "." or ".."
\* (the empty path when directory and name are both empty).
C2_WhiteoutCleaned ==
    /\ \A k \in DOMAIN calls : ~IsWhEntry(calls[k])
    /\ whFiles = WhCleanUpTo(pos)
    /\ Succeeded => ret.whFiles = WhCleanUpTo(Len(layer))

\* a successful Walk over a whiteout with a plain name, one with the empty
\* name, and one with the empty name in the root directory
C2_Witness ==
    /\ Succeeded
    /\ \E i \in 1..Len(layer) : IsWhEntry(i) /\ Stripped(i) = <<"f">>
    /\ \E i \in 1..Len(layer) : IsWhEntry(i) /\ Stripped(i) = <<>>
    /\ pDF \in Range(ret.whFiles)
    /\ pD \in Range(ret.whFiles)
    /\ <<>> \in Range(ret.whFiles)

\* C3 as stated: once a directory entry was skipped by the skip-dir filter,
\* no later entry under it (the directory itself or a descendant) reaches the
\* callback, whatever else was recorded before or after it.
C3_SkippedDirSuppresses ==
    \A i \in skipped : \A j \in Range(calls) :
        i < j => ~UnderDir(PathOf(j), PathOf(i))

\* C4: when the callback returned an error or reading a header failed, Walk
\* has returned a non-nil error with both lists empty, whatever had been
\* accumulated.
C4_NoPartialLists ==
    /\ fault # "none" =>
           pc = "returned" /\ ret.err # "nil"
           /\ ret.opqDirs = <<>> /\ ret.whFiles = <<>>
    /\ ret.err # "nil" => ret.opqDirs = <<>> /\ ret.whFiles = <<>>

\* the callback failed after an opaque and a whiteout marker were accumulated
C4_Witness ==
    /\ fault = "callback"
    /\ pc = "returned"
    /\ opqDirs # <<>>
    /\ whFiles # <<>>

\* the skip filter excludes entry i
FilterSkips(i) ==
    \/ layer[i].typeflag = "dir" /\ PathOf(i) \in wSkipDirs
    \/ layer[i].typeflag \in {"symlink", "link", "reg"}
       /\ PathOf(i) \in wSkipFiles

\* entry i is a directory the skip-dir filter excluded
RecordedDir(i) ==
    ~IsMarker(i) /\ layer[i].typeflag = "dir" /\ PathOf(i) \in wSkipDirs

\* the under-skipped-dir test for one recorded directory: the relative path
\* from dir to path can be computed and does not begin with "../"
UnderByRel(path, dir) ==
    ~Rel(dir, path).err /\ ~HasPrefix(Rel(dir, path).rel, <<".", ".", "/">>)

\* entry i is deliverable: no marker, one of the four types, not excluded by
\* the skip filter, not under a skipped directory recorded before it
Deliverable(i) ==
    /\ ~IsMarker(i)
    /\ layer[i].typeflag \in {"dir", "reg", "symlink", "link"}
    /\ ~FilterSkips(i)
    /\ \A k \in 1..(i - 1) : RecordedDir(k) => ~UnderByRel(PathOf(i), PathOf(k))

\* the deliverable entries among the first n, in stream order
RECURSIVE DeliverableUpTo(_)
DeliverableUpTo(n) ==
    IF n = 0 THEN <<>>
    ELSE IF Deliverable(n) THEN Append(DeliverableUpTo(n - 1), n)
    ELSE DeliverableUpTo(n - 1)

\* C7 as stated: the callback has been invoked exactly once for every
\* deliverable entry read so far and for no other entry, in stream order, and
\* an entry of another type raises no error.
C7_DeliverableOnceInOrder ==
    /\ calls = DeliverableUpTo(pos)
    /\ fault = "none" /\ pc = "returned" => ret.err = "nil"

\* the markers among the first n entries: the opaque ones, the whiteouts
Markers(n) ==
    LET file == [i \in 1..n |-> FileName(layer[i])]
    IN  [opq |-> { i \in 1..n : file[i] = opq },
         wh |-> { i \in 1..n : file[i] # opq /\ HasPrefix(file[i], wh) }]

\* C8: a marker entry read so far is recorded in its list, is not given to
\* the callback, was not put to the skip filter and was not added to the
\* SkipDirSet, whatever its path and type.
C8_MarkersFirst ==
    LET m == Markers(pos)
    IN  /\ \A i \in m.opq \cup m.wh :
               i \notin Range(calls) /\ i \notin consulted /\ i \notin skipped
        /\ Len(opqDirs) = Cardinality(m.opq)
        /\ Len(whFiles) = Cardinality(m.wh)
        /\ Len(skipDirs) = Cardinality(skipped)

\* a marker was read that lies under a directory skipped before it and whose
\* path is a configured skip file, and one whose path is a configured skip dir
C8_Witness ==
    /\ \E i \in skipped : \E j \in 1..pos :
           /\ i < j /\ IsMarker(j)
           /\ UnderDir(PathOf(j), PathOf(i))
           /\ PathOf(j) \in wSkipFiles
           /\ layer[j].typeflag \in {"symlink", "link", "reg"}
    /\ \E j \in 1..pos :
           IsMarker(j) /\ layer[j].typeflag = "dir" /\ PathOf(j) \in wSkipDirs

\* the headers Walk gives to the callback for a stream hs, starting with the
\* skipped directories sd, when no callback fails
RECURSIVE Delivered(_, _)
Delivered(hs, sd) ==
    IF hs = <<>> THEN <<>>
    ELSE LET class == Classify(Head(hs), sd)
         IN  IF class = "deliver"
             THEN <<Head(hs)>> \o Delivered(Tail(hs), sd)
             ELSE IF class = "skipdir"
             THEN Delivered(Tail(hs), Append(sd, FilePath(Head(hs))))
             ELSE Delivered(Tail(hs), sd)

NotOpq(hdr) == FileName(hdr) # opq

\* C9: the entries given to the callback are those given when the opaque
\* markers are taken out of the stream: a marker changes the handling of no
\* other entry, before or after it.
C9_OpaqueSuppressesNothing ==
    [k \in DOMAIN calls |-> layer[calls[k]]]
        = Delivered(SelectSeq(SubSeq(layer, 1, pos), NotOpq), <<>>)

\* entries of an opaque directory were delivered before and after its marker
C9_Witness ==
    \E i, j, k \in 1..pos :
        /\ i < j /\ j < k
        /\ IsOpqEntry(j)
        /\ i \in Range(calls) /\ k \in Range(calls)
        /\ HasPrefix(PathOf(i), FileDir(layer[j]))
        /\ HasPrefix(PathOf(k), FileDir(layer[j]))
        /\ FileDir(layer[j]) # <<>>

\* ------------------------------------------------------------ opener: claims

\* what a caller observes of result k
Observed(k) ==
    [kind |-> results[k].kind, err |-> results[k].err,
     bytes |-> results[k].bytes]

\* C5: whatever the interleaving of the callers, the function given to
\* once.Do runs at most once, and exactly once when an invocation has got
\* past once.Do: the stream is read at most once and at most one temp
\* directory and one temp file are made, also when the first run failed.
C5_MaterializedOnce ==
    /\ nMat <= 1 /\ nReads <= 1 /\ nTempDirs <= 1 /\ nTempFiles <= 1
    /\ (results # <<>> \/ once = "done") => nMat = 1
    /\ Cardinality({ c \in Callers : cpc[c] = "mat" }) <= 1
    /\ \A c \in Callers : cpc[c] = "mat" => nMat = 0

\* both callers have invoked the opener again after a failed spooling
C5_Witness ==
    /\ err = "failed to copy"
    /\ nMat = 1 /\ nReads = 1 /\ nTempDirs = 1
    /\ Len(results) >= 3
    /\ \A c \in Callers : \E k \in DOMAIN results : results[k].caller = c

\* C6 as stated: all invocations of one entry's opener observe the same
\* outcome, the same bytes or the same error.
C6_SameOutcome ==
    \A j, k \in DOMAIN results : Observed(j) = Observed(k)

\* C6 amended: the invocations that return before any releaseFunc of the
\* entry is called observe the same outcome, every one the materialized
\* bytes or every one the same materialization error; and once
\* materialization has failed, every invocation, at any time, returns that
\* error and no handle.
C6_SameOutcomeUntilRelease ==
    /\ \A j, k \in DOMAIN results :
           ~results[j].after /\ ~results[k].after => Observed(j) = Observed(k)
    /\ err # "nil" =>
           \A k \in DOMAIN results :
               Observed(k) = [kind |-> "error",
                              err |-> <<"failed to once do", err>>,
                              bytes |-> <<>>]
    /\ err = "nil" =>
           \A k \in DOMAIN results :
               ~results[k].after =>
                   results[k].kind # "error" /\ results[k].bytes = content

\* two callers were served the same bytes, a handle was released, and a
\* later invocation observed something else
C6_Witness ==
    \E i, j, k \in DOMAIN results :
        /\ results[i].caller # results[j].caller
        /\ ~results[i].after /\ ~results[j].after
        /\ results[i].kind # "error"
        /\ Observed(i) = Observed(j)
        /\ results[k].after
        /\ Observed(k) # Observed(i)

\* C10: the mode follows from fi.Size() and the threshold alone, the
\* threshold itself included: from ThresholdSize on, the content is spooled
\* once and every invocation opens the file; below it, the content is
\* drained once into the buffer and every invocation reads the buffer; and
\* while no releaseFunc has been called every handle reads the whole content
\* from its start.
C10_ModeBySize ==
    /\ \A k \in DOMAIN results :
           /\ results[k].kind = "file" => fiSize >= ThresholdSize
           /\ results[k].kind = "buffer" => fiSize < ThresholdSize
           /\ results[k].kind # "error" /\ ~results[k].after =>
                  results[k].bytes = content
    /\ fiSize >= ThresholdSize => b = <<>>
    /\ fiSize < ThresholdSize => nTempDirs = 0 /\ fs = <<>>
    /\ nReads <= 1
    /\ once = "done" /\ err = "nil" =>
           /\ rd = <<>>
           /\ fiSize >= ThresholdSize => nTempFiles = 1 /\ tempFilePath # 0
           /\ fiSize < ThresholdSize /\ ~Released => b = content
           /\ \A k \in DOMAIN results :
                  ~results[k].after => results[k].kind # "error"

\* an entry of exactly the threshold size was opened three times, by both
\* callers, and every handle reads the whole content from the spooled file
C10_Witness ==
    /\ fiSize = ThresholdSize
    /\ Len(results) = 3
    /\ \A k \in DOMAIN results :
           results[k].kind = "file" /\ results[k].bytes = content
    /\ \E j, k \in DOMAIN results : results[j].caller # results[k].caller
    /\ nReads = 1 /\ nTempFiles = 1

\* C11 as stated: an invocation made after a releaseFunc was called returns
\* no error: the spooled file reopened, or a reader over the emptied buffer
C11_NoErrorAfterRelease ==
    \A k \in DOMAIN results :
        results[k].after =>
            /\ results[k].kind # "error"
            /\ results[k].kind = (IF Spooled(fiSize) THEN "file" ELSE "buffer")
            /\ ~Spooled(fiSize) => results[k].bytes = <<>>

\* C11, amended: after a releaseFunc was called no invocation is blocked
\* (once.Do has completed); an in-memory entry gives a reader over the
\* emptied buffer and no error; a spooled entry gives the error of opening
\* the removed temp file, and nothing is materialized again
C11_AfterRelease ==
    /\ Released => once = "done" /\ err = "nil" /\ nMat = 1
    /\ \A k \in DOMAIN results :
           results[k].after =>
               IF Spooled(fiSize)
               THEN /\ results[k].kind = "error"
                    /\ results[k].err = <<"failed to open the temp file">>
               ELSE /\ results[k].kind = "buffer"
                    /\ results[k].err = <<>>
                    /\ results[k].bytes = <<>>

C11_Witness ==
    \E j, k \in DOMAIN results :
        /\ results[j].released /\ results[j].kind = "file"
        /\ results[j].bytes = content
        /\ results[k].after /\ results[k].kind = "error"

\* C12: every releaseFunc of a spooled entry returns nil, also one called
\* when the temp directory is already gone, and once one was called no temp
\* directory of the entry remains
C12_ReleaseSafe ==
    /\ \A k \in DOMAIN results :
           results[k].kind = "file" /\ results[k].released =>
               results[k].relErr = "nil"
    /\ (\E k \in DOMAIN results :
            results[k].kind = "file" /\ results[k].released) => fs = <<>>

C12_Witness ==
    /\ Len(results) = 2
    /\ \A k \in DOMAIN results :
           results[k].kind = "file" /\ results[k].released
    /\ nTempDirs = 1
    /\ fs = <<>>


\* ------------------------------------------------------------ Walk with
\* content factories: claims

\* the entries whose factory was invoked
OpenedEntries == { opens[k].entry : k \in DOMAIN opens }

\* an invocation before opens[k], in the same callback, read the stream
ReadBefore(k) ==
    \E j \in 1..(k - 1) : opens[j].first /\ opens[j].at = opens[k].at

\* C13: delivering an entry reads nothing and materializes nothing: a
\* closure has run its once.Do only if it was invoked, the stream's content
\* is untouched while no factory was invoked, and a Walk that met no
\* callback error and no header error returns its lists and no error,
\* whatever content is unreadable
C13_Deferred ==
    /\ DOMAIN fac = OpenedEntries
    /\ opens = <<>> => trAt = 0 /\ trN = 0
    /\ \A k \in DOMAIN opens :
           opens[k].err # "nil" => opens[k].entry \in DOMAIN fac
    /\ pc = "returned" /\ fault = "none" =>
           /\ pos = Len(layer)
           /\ ret = [opqDirs |-> opqDirs, whFiles |-> whFiles, err |-> "nil"]

C13_Witness ==
    /\ pc = "returned" /\ fault = "none" /\ ret.err = "nil"
    /\ opens = <<>> /\ fac = <<>>
    /\ \E k \in DOMAIN calls : calls[k] \in bad
    /\ opqDirs # <<>>

\* C14 as stated: once an opener invocation made during a callback has
\* returned a materialization error, the Walk ends at that entry with an
\* error and empty lists
C14_MatErrorFatal ==
    \A k \in DOMAIN opens :
        opens[k].err # "nil" =>
            \/ pc = "analyze" /\ pos = opens[k].at
            \/ /\ pc = "returned" /\ pos = opens[k].at
               /\ ret.err # "nil"
               /\ ret.opqDirs = <<>> /\ ret.whFiles = <<>>

\* C14, amended: a materialization error goes to the callback that invoked
\* the opener; the Walk ends when the callback returns an error, and then
\* at that entry, with the error and empty lists; when the callback returns
\* nil in spite of it the Walk goes on and can return its lists
C14_FatalIfReturned ==
    /\ fault = "callback" =>
           /\ pc = "returned"
           /\ pos = calls[Len(calls)]
           /\ ret = [opqDirs |-> <<>>, whFiles |-> <<>>,
                     err |-> "failed to analyze file"]
    /\ pc = "returned" /\ fault = "none" =>
           ret = [opqDirs |-> opqDirs, whFiles |-> whFiles, err |-> "nil"]

C14_Witness ==
    /\ fault = "callback" /\ pc = "returned"
    /\ \E k \in DOMAIN opens : opens[k].err # "nil" /\ opens[k].at = pos
    /\ opqDirs # <<>> /\ ret.opqDirs = <<>>
    /\ pos < Len(layer)

\* C18 as stated: a first invocation made during the callback of the
\* factory's own entry materializes exactly that entry's content
C18_OwnCallbackContent ==
    \A k \in DOMAIN opens :
        opens[k].first /\ opens[k].at = opens[k].entry
        /\ opens[k].err = "nil"
            => opens[k].bytes = Data(opens[k].entry)

\* C18, amended: a first invocation that materializes gets the content of
\* the entry whose callback is running, all of it when no other factory
\* read the stream earlier in that callback: the factory's own entry when
\* made during its own callback, whatever was read of the entries before,
\* and a later entry when made during a later callback
C18_CurrentEntryContent ==
    \A k \in DOMAIN opens :
        opens[k].first /\ opens[k].err = "nil" /\ ~ReadBefore(k)
            => opens[k].bytes = Data(opens[k].at)

C18_Witness ==
    \E k \in DOMAIN opens :
        LET i == opens[k].entry
        IN  /\ opens[k].first /\ opens[k].at = i /\ opens[k].err = "nil"
            /\ ~ReadBefore(k)
            /\ i > 1
            /\ opens[k].bytes = Data(i) /\ Data(i) # <<>>
            /\ Data(i - 1) # <<>> /\ (i - 1) \notin DOMAIN fac
            /\ \E c \in DOMAIN calls : calls[c] = i - 1

\* ------------------------------------------------------------ Walk:
\* further claims

\* C15 as stated: for the path of the entry Walk is about to read and the
\* directories recorded so far, underSkippedDir is true exactly when for some
\* recorded directory the relative path can be computed and does not begin
\* with "../", wherever in the list a directory with no relative path stands
C15_UnderIffSomeDir ==
    pc = "loop" /\ pos < Len(layer) =>
        LET path == FilePath(Hdr)
        IN  underSkippedDir(path, skipDirs)
                <=> \E k \in DOMAIN skipDirs : UnderByRel(path, skipDirs[k])

\* C16: the step that meets the first failure reads and classifies nothing,
\* calls no callback and makes no factory, and ends the Walk; no step after
\* it does
C16_StopsAtFirstFailure ==
    [][fault' # "none" =>
           /\ pc' = "returned"
           /\ pos' = pos /\ calls' = calls /\ consulted' = consulted
           /\ skipped' = skipped /\ skipDirs' = skipDirs
           /\ opqDirs' = opqDirs /\ whFiles' = whFiles]_vars

C16_Witness ==
    /\ fault # "none" /\ pc = "returned"
    /\ pos < Len(layer)
    /\ calls # <<>>
    /\ layer[Len(layer)].typeflag = "reg"

\* C19 as stated: an entry read so far that is no marker, has one of the
\* four types, is not excluded by the skip filter and is neither a skipped
\* directory recorded before it nor a descendant of one was given to the
\* callback
C19_NonDescendantDelivered ==
    \A i \in 1..pos :
        LET path == PathOf(i)
        IN  /\ ~IsMarker(i)
            /\ layer[i].typeflag \in {"dir", "reg", "symlink", "link"}
            /\ ~FilterSkips(i)
            /\ \A k \in skipped : k < i => ~UnderDir(path, PathOf(k))
            => \E c \in DOMAIN calls : calls[c] = i

\* ------------------------------------------------------------ two Walks:
\* claims

\* the headers invocation w has given to its callback
CallsOf(w) == [k \in DOMAIN w.calls |-> w.layer[w.calls[k]]]

\* the opaque directories of the markers of a stream
RECURSIVE OwnOpqDirs(_)
OwnOpqDirs(hs) ==
    IF hs = <<>> THEN <<>>
    ELSE IF FileName(Head(hs)) = opq
         THEN <<FileDir(Head(hs))>> \o OwnOpqDirs(Tail(hs))
         ELSE OwnOpqDirs(Tail(hs))

\* the whiteout paths of the markers of a stream
RECURSIVE OwnWhFiles(_)
OwnWhFiles(hs) ==
    IF hs = <<>> THEN <<>>
    ELSE IF FileName(Head(hs)) # opq /\ HasPrefix(FileName(Head(hs)), wh)
         THEN <<WhPath(Head(hs))>> \o OwnWhFiles(Tail(hs))
         ELSE OwnWhFiles(Tail(hs))

\* C17: each of two Walk calls on one LayerTar, however their iterations
\* interleave, has given to its callback what a Walk alone on its stream
\* gives, holds in its lists the markers of its own stream only, and the
\* skip configuration is as it was constructed
C17_WalksIndependent ==
    /\ wSkipFiles = {} /\ wSkipDirs = {pD}
    /\ \A id \in WalkIds :
           LET w == walks[id]
               hs == SubSeq(w.layer, 1, w.pos)
           IN  /\ CallsOf(w) = Delivered(hs, <<>>)
               /\ w.opqDirs = OwnOpqDirs(hs)
               /\ w.whFiles = OwnWhFiles(hs)

\* the second call is given d/f after the first, still running, skipped d
C17_Witness ==
    /\ walks[1].skipDirs = <<pD>>
    /\ walks[1].pos < Len(walks[1].layer)
    /\ FileName(walks[1].layer[2]) = opq
    /\ walks[2].opqDirs = <<>>
    /\ \E k \in DOMAIN walks[2].calls :
           LET i == walks[2].calls[k]
           IN  /\ FilePath(walks[2].layer[i]) = pDF
               /\ walks[2].at[i] >= 1
               /\ walks[1].layer[1].typeflag = "dir"

\* ------------------------------------------------------------ openeuler
\* OS analyzer: claims

\* the lines VERSION_ID=... that come after a line NAME="openEuler...
VersionLines ==
    { j \in DOMAIN input :
        /\ HasPrefix(input[j], versionId)
        /\ \E i \in 1..(j - 1) : HasPrefix(input[i], nameOpenEuler) }

\* what follows VERSION_ID= on a line, without the quotes around it
Unquoted(line) ==
    LET v == Slice(line, Len(versionId), Len(line))
    IN  IF Len(v) >= 2 /\ v[1] = "\"" /\ v[Len(v)] = "\""
        THEN Slice(v, 1, Len(v) - 1)
        ELSE v

\* C20 as stated: Analyze returns the OS openEuler, named by the first
\* VERSION_ID= line after a NAME="openEuler line, when there is such a line,
\* and the AnalyzeOSError error when there is none; it ends in no other way
C20_ResultIffVersionAfterName ==
    result.kind \notin {"idle", "running"} =>
        IF VersionLines # {}
        THEN LET j == CHOOSE j \in VersionLines :
                          \A k \in VersionLines : j <= k
             IN  /\ result.kind = "os"
                 /\ result.family = OpenEuler
                 /\ result.name = Unquoted(input[j])
        ELSE /\ result.kind = "error"
             /\ result.err = <<"openeuler", AnalyzeOSError>>

====
